---- MODULE Spec2Model ----
(***************************************************************************)
(* Expense_split: the in-memory expense store (services.py), its balance   *)
(* reducer and its greedy settlement matcher.                              *)
(*                                                                         *)
(* Money is a Python float (IEEE-754 binary64).  The matcher compares      *)
(* remaining amounts against the literal 0.01 with strict inequalities, so *)
(* the last bit of a float decides whether a cursor moves.  A float is     *)
(* therefore modelled exactly: the record [c, e] over a denominator D      *)
(* stands for the real number (c + e * 2^-59) / D, where D = 100 for       *)
(* amounts in cents and D = 100 * num_people inside the reducer.  c is the *)
(* decimal part (in 1/D units) and e the binary representation error (in   *)
(* units of 2^-59 / D).  Every float produced by the program below 8192.00 *)
(* has such a representation with small integers c and e.                  *)
(*                                                                         *)
(* An expense is held with its id, amount and paid_by.  Its description    *)
(* and its two timestamps are left out: no balance, settlement or id is    *)
(* computed from them.  GET /expenses, which returns a copy of the list,   *)
(* is left out as well.                                                    *)
(***************************************************************************)
EXTENDS Integers, Sequences, FiniteSets, TLC

(***************************************************************************)
(* binary64 arithmetic                                                     *)
(***************************************************************************)

\* 2^UnitExp is the reciprocal of the unit of the error term: 2^-59 is the
\* unit in the last place of the double nearest 0.01.
UnitExp == 59

\* the largest binade handled: values below 2^(MaxBinade - 6)
MaxBinade == 19

Pow2(pw) == 2 ^ pw

\* 2^pw mod den for pw up to 60, in two factors that stay below 2^31
Pow2Mod(pw, den) ==
    IF pw <= 30 THEN Pow2(pw) % den
    ELSE ((Pow2(30) % den) * (Pow2(pw - 30) % den)) % den

Neg(a) == [c |-> 0 - a.c, e |-> 0 - a.e]

Zero == [c |-> 0, e |-> 0]

\* a < b, a <= b on exact values: the error terms are far below one unit of c
Lt(a, b) == a.c < b.c \/ (a.c = b.c /\ a.e < b.e)
Le(a, b) == a.c < b.c \/ (a.c = b.c /\ a.e <= b.e)

IsNeg(a) == Lt(a, Zero)

FAbs(a) == IF IsNeg(a) THEN Neg(a) ELSE a

FMin(a, b) == IF Lt(b, a) THEN b ELSE a

\* pw such that the unit in the last place of the non-negative value a over
\* den is 2^(pw - 59); -1 when a is below 2^-7 (then every multiple of 2^-59
\* is representable)
AtLeastBinade(a, den, pw) ==
    den * Pow2(pw) < 128 * a.c \/ (den * Pow2(pw) = 128 * a.c /\ a.e >= 0)

\* the largest pw in lo..hi with AtLeastBinade, lo when there is none above it
RECURSIVE UlpExpIn(_, _, _, _)
UlpExpIn(a, den, lo, hi) ==
    IF lo = hi THEN lo
    ELSE IF AtLeastBinade(a, den, (lo + hi + 1) \div 2)
         THEN UlpExpIn(a, den, (lo + hi + 1) \div 2, hi)
         ELSE UlpExpIn(a, den, lo, ((lo + hi + 1) \div 2) - 1)

UlpExp(a, den) == UlpExpIn(a, den, 0 - 1, MaxBinade)

\* (c * 2^59 + e) mod (den * 2^pw)
Residue(a, den, pw) ==
    (Pow2(pw) * ((Pow2Mod(UnitExp - pw, den) * (a.c % den)) % den) + a.e)
        % (den * Pow2(pw))

\* the multiple of the unit nearest to a: r is what a has above the multiple
\* below it, in units of 2^-59 / den, modulus is the unit, and r2 is what a has
\* above the even multiple below it; an exact half goes to the even multiple
RoundTo(a, modulus, r, r2) ==
    IF 2 * r < modulus \/ (2 * r = modulus /\ r2 = r)
    THEN [c |-> a.c, e |-> a.e - r]
    ELSE [c |-> a.c, e |-> a.e + (modulus - r)]

RoundAt(a, den, ulp) ==
    IF ulp < 0 THEN a
    ELSE RoundTo(a, den * Pow2(ulp), Residue(a, den, ulp), Residue(a, den, ulp + 1))

\* round-to-nearest, ties-to-even, of the non-negative exact value a over den
RoundPos(a, den) == RoundAt(a, den, UlpExp(a, den))

WithSignOf(a, b) == IF IsNeg(a) THEN Neg(b) ELSE b

\* the double nearest the exact value a over den
RoundNearest(a, den) == WithSignOf(a, RoundPos(FAbs(a), den))

\* float + float, float - float
FAdd(a, b, den) == RoundNearest([c |-> a.c + b.c, e |-> a.e + b.e], den)
FSub(a, b, den) == RoundNearest([c |-> a.c - b.c, e |-> a.e - b.e], den)

\* the double written as the decimal cents / 100
Dec(cents) == RoundNearest([c |-> cents, e |-> 0], 100)

\* the literal 0.01
Tol == Dec(1)

\* round(a, 2) as a number of cents, for a over 100 * people: correctly
\* rounded from the exact binary value, an exact half going to the even cent
RoundCentsPos(a, people) ==
    LET k == a.c \div people
        r == a.c % people
    IN  IF 2 * r < people THEN k
        ELSE IF 2 * r > people THEN k + 1
        ELSE IF a.e > 0 THEN k + 1
        ELSE IF a.e < 0 THEN k
        ELSE IF k % 2 = 0 THEN k ELSE k + 1

CentsWithSignOf(a, cents) == IF IsNeg(a) THEN 0 - cents ELSE cents

RoundCents(a, people) == CentsWithSignOf(a, RoundCentsPos(FAbs(a), people))

(***************************************************************************)
(* the store                                                               *)
(***************************************************************************)

\* bound on the number of requests served in a behaviour
MaxOps == 2

\* largest amount, in cents, of an expense of a drawn snapshot
MaxCents == 6

\* payer names, already stripped and title-cased, in ascending name order
PeopleSeq == <<"Dev", "Om", "Sanket", "Shantanu">>

People == {PeopleSeq[i] : i \in 1..Len(PeopleSeq)}

\* request amounts, in cents; 0 is the one the validator rejects
RequestAmounts == {0, 6}

\* the payer an update request may name
UpdatePeople == {"Dev"}

\* implementations of the builtin sum over floats: plain left-to-right
\* addition (CPython up to 3.11), Neumaier compensated (3.12 and later)
SumImpls == {"naive", "compensated"}

\* an optional request field: <<>> is None, <<v>> is the value v
Optional(values) == {<<>>} \cup {<<v>> : v \in values}

\* the update requests that name a field the model holds
UpdateRequests ==
    {fields \in Optional(RequestAmounts) \X Optional(UpdatePeople) :
        fields[1] # <<>> \/ fields[2] # <<>>}

\* expenses, next_id: the fields of ExpenseService
\* response: the outcome of the last request
\* set_order: the iteration order of set(paid_by ...) for the current
\*            expenses, fixed by the string hashes of the process; drawn
\*            when the set is first iterated for its order
\* sum_impl: the interpreter's implementation of sum
\* ops: the number of requests served
\* assigned: history, the ids given to expenses so far
\* repeated: history, the last request was a read and so was the one before
\*           it, the same one
VARIABLES expenses, next_id, response, set_order, sum_impl, ops, assigned, repeated

vars == <<expenses, next_id, response, set_order, sum_impl, ops, assigned, repeated>>

store == <<expenses, next_id>>

\* amount: float = Field(..., gt=0) and validate_amount; an amount is held as
\* its number of cents k and stands for the double Dec(k)
ValidAmount(k) == k > 0

\* the test expenses of _initialize_test_data, amounts in cents
test_expenses == <<
    [amount |-> 60000, paid_by |-> "Shantanu"],
    [amount |-> 45000, paid_by |-> "Sanket"],
    [amount |-> 30000, paid_by |-> "Om"],
    [amount |-> 50000, paid_by |-> "Shantanu"],
    [amount |-> 28000, paid_by |-> "Sanket"] >>

\* the expenses list after adding the requests reqs in order, first id first
Added(reqs, first) ==
    [i \in 1..Len(reqs) |->
        [id |-> first + i - 1, amount |-> reqs[i].amount, paid_by |-> reqs[i].paid_by]]

Ids(exps) == {exps[i].id : i \in 1..Len(exps)}

Payers(exps) == {exps[i].paid_by : i \in 1..Len(exps)}

\* a faulty variant of unique_people: the payers of the test expenses stay
unique_people_ever(exps) == Payers(exps) \cup Payers(Added(test_expenses, 1))

\* unique_people = set(expense["paid_by"] for expense in self.expenses)
unique_people(exps) == Payers(exps)

\* index of the first expense with this id, 0 when there is none
RECURSIVE IndexFrom(_, _, _)
IndexFrom(exps, expense_id, i) ==
    IF i > Len(exps) THEN 0
    ELSE IF exps[i].id = expense_id THEN i
    ELSE IndexFrom(exps, expense_id, i + 1)

\* a faulty variant of get_expense_by_id: the last expense when none has the id
get_expense_by_id_or_last(exps, expense_id) ==
    IF IndexFrom(exps, expense_id, 1) = 0 THEN Len(exps)
    ELSE IndexFrom(exps, expense_id, 1)

get_expense_by_id(exps, expense_id) == IndexFrom(exps, expense_id, 1)

\* list.remove: the list without its element at index i
RemoveAt(exps, i) ==
    [k \in 1..(Len(exps) - 1) |-> IF k < i THEN exps[k] ELSE exps[k + 1]]

\* the members of nameset in ascending name order
RECURSIVE SortedNamesFrom(_, _)
SortedNamesFrom(nameset, i) ==
    IF i > Len(PeopleSeq) THEN <<>>
    ELSE IF PeopleSeq[i] \in nameset
         THEN <<PeopleSeq[i]>> \o SortedNamesFrom(nameset, i + 1)
         ELSE SortedNamesFrom(nameset, i + 1)

SortedNames(nameset) == SortedNamesFrom(nameset, 1)

(***************************************************************************)
(* the balance reducer                                                     *)
(***************************************************************************)

\* sum over floats by plain addition, left to right, from acc
RECURSIVE NaiveSumFrom(_, _, _)
NaiveSumFrom(amounts, acc, i) ==
    IF i > Len(amounts) THEN acc
    ELSE NaiveSumFrom(amounts, FAdd(acc, Dec(amounts[i]), 100), i + 1)

\* 0 + amounts[1] is amounts[1]
NaiveSum(amounts) ==
    IF amounts = <<>> THEN Zero ELSE NaiveSumFrom(amounts, Dec(amounts[1]), 2)

\* sum over floats with Neumaier compensation: f is the running sum, comp the
\* running compensation, added once at the end when it is not zero
RECURSIVE CompensatedSumFrom(_, _, _, _)

\* what the addition t = f + x lost of the smaller of f and x
Lost(f, x, t) ==
    IF Le(FAbs(x), FAbs(f))
    THEN FAdd(FSub(f, t, 100), x, 100)
    ELSE FAdd(FSub(x, t, 100), f, 100)

\* the step for the amount x with t = f + x
CompensatedStep(amounts, f, comp, i, x, t) ==
    CompensatedSumFrom(amounts, t, FAdd(comp, Lost(f, x, t), 100), i + 1)

CompensatedAdd(amounts, f, comp, i, x) ==
    CompensatedStep(amounts, f, comp, i, x, FAdd(f, x, 100))

CompensatedSumFrom(amounts, f, comp, i) ==
    IF i > Len(amounts)
    THEN IF comp # Zero THEN FAdd(f, comp, 100) ELSE f
    ELSE CompensatedAdd(amounts, f, comp, i, Dec(amounts[i]))

CompensatedSum(amounts) ==
    IF amounts = <<>> THEN Zero
    ELSE CompensatedSumFrom(amounts, Dec(amounts[1]), Zero, 2)

FloatSum(amounts, impl) ==
    IF impl = "naive" THEN NaiveSum(amounts) ELSE CompensatedSum(amounts)

AmountsOf(exps) == [i \in 1..Len(exps) |-> exps[i].amount]

\* the amounts of the expenses paid by person, in list order
RECURSIVE AmountsPaidBy(_, _)
AmountsPaidBy(exps, person) ==
    IF exps = <<>> THEN <<>>
    ELSE IF exps[1].paid_by = person
         THEN <<exps[1].amount>> \o AmountsPaidBy(Tail(exps), person)
         ELSE AmountsPaidBy(Tail(exps), person)

\* paid_by_person[person]: 0 + amount + amount + ..., plain float additions
paid_by_person(exps, person) == NaiveSum(AmountsPaidBy(exps, person))

\* the float a, a value over 100, as a value over 100 * num_people
Over(a, num_people) == [c |-> num_people * a.c, e |-> num_people * a.e]

\* per_person_share = total_amount / num_people, a float over 100 * num_people
per_person_share(exps, impl) ==
    RoundNearest(FloatSum(AmountsOf(exps), impl),
                 100 * Cardinality(unique_people(exps)))

\* balance = amount_paid - per_person_share; round(balance, 2) in cents
BalanceOf(exps, person, share, num_people) ==
    RoundCents(FSub(Over(paid_by_person(exps, person), num_people), share,
                    100 * num_people),
               num_people)

\* for person in unique_people: balances[person] = round(balance, 2)
RECURSIVE BalancesFor(_, _, _, _)
BalancesFor(names, exps, share, num_people) ==
    IF names = <<>> THEN <<>>
    ELSE (Head(names) :> BalanceOf(exps, Head(names), share, num_people))
            @@ BalancesFor(Tail(names), exps, share, num_people)

\* the balances dict, in cents; the empty function for no expenses
calculate_individual_balances(exps, impl) ==
    IF exps = <<>> THEN <<>>
    ELSE BalancesFor(SortedNames(unique_people(exps)), exps,
                     per_person_share(exps, impl),
                     Cardinality(unique_people(exps)))

(***************************************************************************)
(* the views and the settlement matcher                                    *)
(***************************************************************************)

\* a faulty variant of Gets: any positive balance is a credit
GetsAnything(net) == Lt(Zero, Dec(net))

\* balance > 0.01 and balance < -0.01 for the float balance Dec(k)
Gets(net) == Lt(Tol, Dec(net))
Owes(net) == Lt(Dec(net), Neg(Tol))

StatusOf(net) == IF Gets(net) THEN "gets" ELSE IF Owes(net) THEN "owes" ELSE "even"

Abs(net) == IF net < 0 THEN 0 - net ELSE net

BalanceRow(person, net) ==
    [person |-> person, balance |-> Abs(net), status |-> StatusOf(net)]

BalanceRows(balances, names) ==
    [i \in 1..Len(names) |-> BalanceRow(names[i], balances[names[i]])]

\* the BalanceResponse list, sorted by person; balances in cents
calculate_balances(exps, impl) ==
    IF exps = <<>> THEN <<>>
    ELSE BalanceRows(calculate_individual_balances(exps, impl),
                     SortedNames(unique_people(exps)))

PersonRow(exps, name, net) ==
    [name |-> name,
     total_paid |-> paid_by_person(exps, name),
     total_expenses |-> Len(AmountsPaidBy(exps, name)),
     balance |-> net]

PersonRows(exps, balances, names) ==
    [i \in 1..Len(names) |-> PersonRow(exps, names[i], balances[names[i]])]

\* the PersonResponse list, sorted by name; total_paid is a float
get_all_people(exps, impl) ==
    IF exps = <<>> THEN <<>>
    ELSE PersonRows(exps, calculate_individual_balances(exps, impl),
                    SortedNames(Payers(exps)))

\* the debtors, in the iteration order of the balances
RECURSIVE DebtorsOf(_, _)
DebtorsOf(nets, order) ==
    IF order = <<>> THEN <<>>
    ELSE LET person == Head(order)
             rest == DebtorsOf(nets, Tail(order))
         IN  IF Owes(nets[person])
             THEN <<[person |-> person, amount |-> FAbs(Dec(nets[person]))]>> \o rest
             ELSE rest

\* the creditors, in the iteration order of the balances
RECURSIVE CreditorsOf(_, _)
CreditorsOf(nets, order) ==
    IF order = <<>> THEN <<>>
    ELSE LET person == Head(order)
             rest == CreditorsOf(nets, Tail(order))
         IN  IF ~Owes(nets[person]) /\ Gets(nets[person])
             THEN <<[person |-> person, amount |-> Dec(nets[person])]>> \o rest
             ELSE rest

\* item placed after every element of the descending list whose amount is not
\* below its own
RECURSIVE InsertDesc(_, _)
InsertDesc(sorted, item) ==
    IF sorted = <<>> THEN <<item>>
    ELSE IF Lt(Head(sorted).amount, item.amount)
         THEN <<item>> \o sorted
         ELSE <<Head(sorted)>> \o InsertDesc(Tail(sorted), item)

\* list.sort(key=amount, reverse=True): stable, equal amounts keep their order
RECURSIVE SortDescFrom(_, _, _)
SortDescFrom(list, sorted, i) ==
    IF i > Len(list) THEN sorted
    ELSE SortDescFrom(list, InsertDesc(sorted, list[i]), i + 1)

\* a faulty variant of SortDesc: the list is left in its order
Unsorted(list) == list

SortDesc(list) == SortDescFrom(list, <<>>, 1)

\* a faulty variant of Significant: the threshold of the payment is not the
\* threshold of the cursors
SignificantAboveTwoCents(amt) == Lt(Dec(2), amt)

\* if settlement_amount > 0.01
Significant(amt) == Lt(Tol, amt)

\* if debtor["amount"] < 0.01, if creditor["amount"] < 0.01
Settled(left) == Lt(left, Tol)

\* settlements.append(...); debtor["amount"] -= settlement_amount;
\* creditor["amount"] -= settlement_amount
Pay(w, settlement_amount) ==
    [w EXCEPT
        !.settlements =
            Append(@, [from_person |-> w.debtors[w.i].person,
                       to_person |-> w.creditors[w.j].person,
                       amount |-> RoundCents(settlement_amount, 1)]),
        !.debtors[w.i].amount = FSub(@, settlement_amount, 100),
        !.creditors[w.j].amount = FSub(@, settlement_amount, 100)]

PayIfSignificant(w, settlement_amount) ==
    IF Significant(settlement_amount) THEN Pay(w, settlement_amount) ELSE w

\* if debtor["amount"] < 0.01: i += 1; if creditor["amount"] < 0.01: j += 1
Advance(w) ==
    [w EXCEPT
        !.i = IF Settled(w.debtors[w.i].amount) THEN @ + 1 ELSE @,
        !.j = IF Settled(w.creditors[w.j].amount) THEN @ + 1 ELSE @]

\* one iteration of the while loop on the walk state w
WalkStep(w) ==
    Advance(PayIfSignificant(w, FMin(w.debtors[w.i].amount,
                                      w.creditors[w.j].amount)))

\* while i < len(debtors) and j < len(creditors)
WalkDone(w) == w.i > Len(w.debtors) \/ w.j > Len(w.creditors)

RECURSIVE Walk(_)

\* An iteration that changes nothing is repeated for ever: the loop body is
\* deterministic, so the call does not return.
WalkOn(w, next) ==
    IF next = w THEN [returns |-> FALSE, last |-> w] ELSE Walk(next)

\* the walk from w
Walk(w) ==
    IF WalkDone(w) THEN [returns |-> TRUE, last |-> w] ELSE WalkOn(w, WalkStep(w))

WalkFrom(balances, order) ==
    [debtors |-> SortDesc(DebtorsOf(balances, order)),
     creditors |-> SortDesc(CreditorsOf(balances, order)),
     settlements |-> <<>>,
     i |-> 1, j |-> 1]

\* the walk state before the first iteration; order is the iteration order of
\* the balances dict, which is that of the set unique_people
WalkStart(exps, impl, order) ==
    WalkFrom(calculate_individual_balances(exps, impl), order)

AllPairs(start, n) ==
    [start EXCEPT !.settlements =
        [k \in 1..(Len(start.debtors) * n) |->
            [from_person |-> start.debtors[((k - 1) \div n) + 1].person,
             to_person |-> start.creditors[((k - 1) % n) + 1].person,
             amount |-> RoundCents(FMin(start.debtors[((k - 1) \div n) + 1].amount,
                                        start.creditors[((k - 1) % n) + 1].amount),
                                   1)]]]

PairsOf(start) == [returns |-> TRUE, last |-> AllPairs(start, Len(start.creditors))]

\* a faulty variant of SettlementWalk: one settlement for every pair of a
\* debtor and a creditor, of the smaller of their two amounts
PairwiseWalk(exps, impl, order) == PairsOf(WalkStart(exps, impl, order))

\* the walk of calculate_settlements, from the early return on no expenses
SettlementWalk(exps, impl, order) ==
    IF exps = <<>>
    THEN [returns |-> TRUE,
          last |-> [debtors |-> <<>>, creditors |-> <<>>, settlements |-> <<>>,
                    i |-> 1, j |-> 1]]
    ELSE Walk(WalkStart(exps, impl, order))

calculate_settlements(exps, impl, order) ==
    SettlementWalk(exps, impl, order).last.settlements


(***************************************************************************)
(* the iteration order of the set of payers                                *)
(***************************************************************************)

RECURSIVE OrdersOf(_)
OrdersOf(nameset) ==
    IF nameset = {} THEN {<<>>}
    ELSE UNION {{<<first>> \o rest : rest \in OrdersOf(nameset \ {first})} :
                first \in nameset}

\* The order of unique_people is the order of the balances dict.  Its only
\* reader that does not sort by name afterwards is the stable sort of
\* calculate_settlements, which keeps it among equal amounts only.  Of the
\* orders that give the same sorted lists one is kept: the one that has, at
\* every position, the balance that the name order has there.
OrdersLike(balances, by_name) ==
    {order \in OrdersOf(DOMAIN balances) :
        \A i \in 1..Len(by_name) : balances[order[i]] = balances[by_name[i]]}

SetOrders(exps, impl) ==
    IF exps = <<>> THEN {<<>>}
    ELSE OrdersLike(calculate_individual_balances(exps, impl),
                    SortedNames(unique_people(exps)))

Unordered == [known |-> FALSE, order |-> <<>>]

(***************************************************************************)
(* the requests                                                            *)
(***************************************************************************)

Response(op, status, id, body) ==
    [op |-> op, status |-> status, id |-> id, body |-> body]

\* one more request is served
Served ==
    /\ ops < MaxOps
    /\ ops' = ops + 1

\* a request whose body the model rejects: 422, the service is not called
Rejected(op, id) ==
    /\ response' = Response(op, 422, id, <<>>)
    /\ repeated' = FALSE
    /\ UNCHANGED <<expenses, next_id, set_order, sum_impl, assigned>>

\* a request for an expense that is not there: KeyError, 404
NotFound(op, expense_id) ==
    /\ response' = Response(op, 404, expense_id, <<>>)
    /\ repeated' = FALSE
    /\ UNCHANGED <<expenses, next_id, set_order, sum_impl, assigned>>

\* POST /expenses
add_expense(amount, paid_by) ==
    /\ Served
    /\ IF ~ValidAmount(amount)
       THEN Rejected("add", 0)
       ELSE /\ expenses' = Append(expenses,
                                  [id |-> next_id, amount |-> amount, paid_by |-> paid_by])
            /\ next_id' = next_id + 1
            /\ response' = Response("add", 201, next_id, <<expenses'[Len(expenses')]>>)
            /\ set_order' = Unordered
            /\ assigned' = assigned \cup {next_id}
            /\ repeated' = FALSE
            /\ UNCHANGED sum_impl

\* PUT /expenses/{expense_id}, amount and paid_by optional
update_expense(expense_id, amount, paid_by) ==
    /\ Served
    /\ LET found == get_expense_by_id(expenses, expense_id)
       IN  IF amount # <<>> /\ ~ValidAmount(amount[1])
           THEN Rejected("update", expense_id)
           ELSE IF found = 0
           THEN NotFound("update", expense_id)
           ELSE /\ expenses' =
                     [expenses EXCEPT
                        ![found].amount = IF amount # <<>> THEN amount[1] ELSE @,
                        ![found].paid_by = IF paid_by # <<>> THEN paid_by[1] ELSE @]
                /\ response' = Response("update", 200, expense_id, <<expenses'[found]>>)
                /\ set_order' = Unordered
                /\ repeated' = FALSE
                /\ UNCHANGED <<next_id, sum_impl, assigned>>

\* a faulty variant of delete_expense: next_id follows the length of the list
delete_expense_renumbering(expense_id) ==
    /\ Served
    /\ LET found == get_expense_by_id(expenses, expense_id)
       IN  IF found = 0
           THEN NotFound("delete", expense_id)
           ELSE /\ expenses' = RemoveAt(expenses, found)
                /\ next_id' = Len(expenses') + 1
                /\ response' = Response("delete", 200, expense_id, <<>>)
                /\ set_order' = Unordered
                /\ repeated' = FALSE
                /\ UNCHANGED <<sum_impl, assigned>>

\* DELETE /expenses/{expense_id}
delete_expense(expense_id) ==
    /\ Served
    /\ LET found == get_expense_by_id(expenses, expense_id)
       IN  IF found = 0
           THEN NotFound("delete", expense_id)
           ELSE /\ expenses' = RemoveAt(expenses, found)
                /\ response' = Response("delete", 200, expense_id, <<>>)
                /\ set_order' = Unordered
                /\ repeated' = FALSE
                /\ UNCHANGED <<next_id, sum_impl, assigned>>

\* the orders the set of payers may be iterated in: the one it was iterated
\* in before, any when this is its first iteration
DrawnOrders ==
    IF set_order.known THEN {set_order.order} ELSE SetOrders(expenses, sum_impl)

\* GET /balances
get_balances ==
    /\ Served
    /\ \E order \in DrawnOrders : set_order' = [known |-> TRUE, order |-> order]
    /\ response' = Response("balances", 200, 0, calculate_balances(expenses, sum_impl))
    /\ repeated' = (response.op = "balances")
    /\ UNCHANGED <<expenses, next_id, sum_impl, assigned>>

\* the response to GET /settlements; a walk that does not return sends none
Answer(walk) ==
    IF walk.returns THEN Response("settlements", 200, 0, walk.last.settlements)
    ELSE Response("settlements", 0, 0, <<>>)

\* GET /settlements
get_settlements ==
    /\ Served
    /\ \E order \in DrawnOrders :
          /\ set_order' = [known |-> TRUE, order |-> order]
          /\ response' = Answer(SettlementWalk(expenses, sum_impl, order))
    /\ repeated' = (response.op = "settlements")
    /\ UNCHANGED <<expenses, next_id, sum_impl, assigned>>

\* the expenses paid by person, in list order
ExpensesPaidBy(exps, person) ==
    LET PaidByPerson(expense) == expense.paid_by = person
    IN  SelectSeq(exps, PaidByPerson)

RECURSIVE SortedByPayer(_, _)
SortedByPayer(exps, names) ==
    IF names = <<>> THEN <<>>
    ELSE ExpensesPaidBy(exps, Head(names)) \o SortedByPayer(exps, Tail(names))

\* a faulty variant of get_people: the list of the store is sorted by payer,
\* in place
get_people_sorting_store ==
    /\ Served
    /\ \E order \in DrawnOrders : set_order' = [known |-> TRUE, order |-> order]
    /\ expenses' = SortedByPayer(expenses, SortedNames(Payers(expenses)))
    /\ response' = Response("people", 200, 0, get_all_people(expenses, sum_impl))
    /\ repeated' = (response.op = "people")
    /\ UNCHANGED <<next_id, sum_impl, assigned>>

\* GET /people
get_people ==
    /\ Served
    /\ \E order \in DrawnOrders : set_order' = [known |-> TRUE, order |-> order]
    /\ response' = Response("people", 200, 0, get_all_people(expenses, sum_impl))
    /\ repeated' = (response.op = "people")
    /\ UNCHANGED <<expenses, next_id, sum_impl, assigned>>

\* ExpenseService(): the test expenses added in order, ids from 1
Init ==
    /\ expenses = Added(test_expenses, 1)
    /\ next_id = Len(test_expenses) + 1
    /\ response = Response("none", 0, 0, <<>>)
    /\ set_order = Unordered
    /\ sum_impl \in SumImpls
    /\ ops = 0
    /\ assigned = Ids(expenses)
    /\ repeated = FALSE

Mutate ==
    \/ \E amount \in RequestAmounts, paid_by \in People : add_expense(amount, paid_by)
    \/ \E expense_id \in 1..next_id, fields \in UpdateRequests :
            update_expense(expense_id, fields[1], fields[2])
    \/ \E expense_id \in 1..next_id : delete_expense(expense_id)

Read ==
    \/ get_balances
    \/ get_settlements
    \/ get_people

Next == Mutate \/ Read

Spec == Init /\ [][Next]_vars

\* one expense of 1..MaxCents cents for each payer of a set of payers, in name
\* order, added after the test expenses were deleted, one request before the
\* last
Snapshots ==
    UNION {{[i \in 1..Len(SortedNames(payers)) |->
                [amount |-> cents[SortedNames(payers)[i]],
                 paid_by |-> SortedNames(payers)[i]]] :
              cents \in [payers -> 1..MaxCents]} :
           payers \in SUBSET People}

SnapshotInit ==
    /\ \E reqs \in Snapshots :
          /\ expenses = Added(reqs, Len(test_expenses) + 1)
          /\ next_id = Len(test_expenses) + 1 + Len(reqs)
    /\ response = Response("none", 0, 0, <<>>)
    /\ sum_impl \in SumImpls
    /\ set_order = Unordered
    /\ ops = MaxOps - 1
    /\ assigned = 1..(next_id - 1)
    /\ repeated = FALSE

SnapshotSpec == SnapshotInit /\ [][Read]_vars

(***************************************************************************)
(* the properties                                                          *)
(***************************************************************************)

\* the balances dict of the expenses in the store, in cents
NetBalances == calculate_individual_balances(expenses, sum_impl)

RECURSIVE SumOver(_, _)
SumOver(amounts, i) ==
    IF i > Len(amounts) THEN 0 ELSE amounts[i] + SumOver(amounts, i + 1)

\* a read was served and returned
Returned(op) == response.op = op /\ response.status = 200

\* C1: zero-sum.  The net balances that get_all_people returns for the
\* expenses of the store, the values of _calculate_individual_balances, add
\* up to at most one cent above or below zero.
ZeroSum ==
    Returned("people") =>
        Abs(SumOver([i \in 1..Len(response.body) |-> response.body[i].balance], 1)) <= 1

\* what the settlements make person pay, and receive, in cents
PaidBy(settlements, person) ==
    SumOver([i \in 1..Len(settlements) |->
                IF settlements[i].from_person = person
                THEN settlements[i].amount ELSE 0], 1)

ReceivedBy(settlements, person) ==
    SumOver([i \in 1..Len(settlements) |->
                IF settlements[i].to_person = person
                THEN settlements[i].amount ELSE 0], 1)

\* with the settlements applied to the balances, everybody is within one
\* cent of zero
Closes(settlements, balances) ==
    \A person \in DOMAIN balances :
        Abs(balances[person] + PaidBy(settlements, person)
                - ReceivedBy(settlements, person)) <= 1

\* C2: settlement closure.  With every returned settlement applied to the net
\* balances, the amount added to the net of its payer and taken from the net
\* of its receiver, every participant is within one cent of zero.
SettlementClosure == Returned("settlements") => Closes(response.body, NetBalances)

\* C3: termination.  A request for the settlements is answered: the walk over
\* the debtors and the creditors reaches the end of one of the two lists.
WalkReturns == response.op = "settlements" => response.status = 200

\* an iteration on w, which gives next, leaves one cent on one side, and the
\* cursor of the other side is then at an entry that is not settled
LeavesOneCent(w, next) ==
    \/ /\ RoundCents(next.debtors[w.i].amount, 1) = 1
       /\ next.j <= Len(next.creditors)
       /\ ~Settled(next.creditors[next.j].amount)
    \/ /\ RoundCents(next.creditors[w.j].amount, 1) = 1
       /\ next.i <= Len(next.debtors)
       /\ ~Settled(next.debtors[next.i].amount)

\* some iteration of the walk from w leaves one cent in that way
RECURSIVE OneCentLeftFrom(_)

OneCentLeftOn(w, next) ==
    LeavesOneCent(w, next) \/ (next # w /\ OneCentLeftFrom(next))

OneCentLeftFrom(w) == ~WalkDone(w) /\ OneCentLeftOn(w, WalkStep(w))

\* witness of C3: the walk served left one cent on one side while the other
\* was not settled, and returned
OneCentLeftAndReturned ==
    /\ Returned("settlements")
    /\ expenses # <<>>
    /\ OneCentLeftFrom(WalkStart(expenses, sum_impl, set_order.order))

\* participants with net < -0.01, and with net > 0.01
Debtors(balances) == {person \in DOMAIN balances : balances[person] < 0 - 1}

Creditors(balances) == {person \in DOMAIN balances : balances[person] > 1}

\* the largest number of settlements for d debtors and c creditors
MostSettlements(d, c) == IF d = 0 \/ c = 0 THEN 0 ELSE d + c - 1

CountBound(balances) ==
    MostSettlements(Cardinality(Debtors(balances)), Cardinality(Creditors(balances)))

\* C4: the settlements returned are at most |debtors| + |creditors| - 1, and
\* none when there is no debtor or no creditor.
SettlementCountBound ==
    Returned("settlements") => Len(response.body) <= CountBound(NetBalances)

\* witness of C4: there are debtors and creditors among four participants,
\* and the bound is attained
CountBoundAttained ==
    /\ Returned("settlements")
    /\ Cardinality(Payers(expenses)) = 4
    /\ response.body # <<>>
    /\ Len(response.body) = CountBound(NetBalances)

\* who is within one cent of zero has status "even"
EvenInBand(rows, balances) ==
    \A i \in 1..Len(rows) :
        Abs(balances[rows[i].person]) <= 1 => rows[i].status = "even"

\* nobody within one cent of zero pays or receives
BandLeftOut(settlements, balances) ==
    \A i \in 1..Len(settlements) :
        /\ Abs(balances[settlements[i].from_person]) > 1
        /\ Abs(balances[settlements[i].to_person]) > 1

\* C5: even-band exclusion.  A participant whose net is within one cent of
\* zero has status "even" in the balances returned and is neither payer nor
\* receiver of a settlement returned.
EvenBandExclusion ==
    /\ Returned("balances") => EvenInBand(response.body, NetBalances)
    /\ Returned("settlements") => BandLeftOut(response.body, NetBalances)

OneCentFromZero(balances) == \E person \in DOMAIN balances : Abs(balances[person]) = 1

\* witness of C5: settlements were returned, and a participant one cent from
\* zero is in none of them
OneCentLeftOut ==
    /\ Returned("settlements")
    /\ response.body # <<>>
    /\ OneCentFromZero(NetBalances)

\* C6: the persons of the balances returned, and the names of the people
\* returned, are the distinct paid_by values of the expenses in the store.
PersonsArePayers ==
    /\ Returned("balances") =>
          {response.body[i].person : i \in 1..Len(response.body)} = Payers(expenses)
    /\ Returned("people") =>
          {response.body[i].name : i \in 1..Len(response.body)} = Payers(expenses)

\* witness of C6: balances returned after the only expense of Om was given to
\* Dev, or deleted
PayerGone ==
    /\ Returned("balances")
    /\ "Om" \notin Payers(expenses)
    /\ response.body # <<>>

\* no two expenses of the store have the same id
IdsUnique ==
    \A i, j \in 1..Len(expenses) : expenses[i].id = expenses[j].id => i = j

\* an added expense has an id above every id given before; an update keeps
\* the ids
IdStep ==
    /\ (response'.op = "add" /\ response'.status = 201) =>
          /\ \A id \in assigned : id < response'.id
          /\ expenses' = Append(expenses, expenses'[Len(expenses')])
          /\ expenses'[Len(expenses')].id = response'.id
    /\ response'.op = "update" =>
          [i \in 1..Len(expenses') |-> expenses'[i].id]
              = [i \in 1..Len(expenses) |-> expenses[i].id]

\* C7: ids are unique, given in increasing order and never given twice, also
\* after the expense with the highest id was deleted; an update changes no id.
IdsNeverReused == []IdsUnique /\ [][IdStep]_vars

\* witness of C7: an expense was added after the expense with the highest id
\* was deleted
AddedAfterHighestDeleted ==
    /\ response.op = "add"
    /\ response.status = 201
    /\ response.id - 1 \in assigned \ Ids(expenses)

\* C8: scenario A.  While the store holds the test expenses as constructed,
\* the balances returned are Om owes 410, Sanket gets 20, Shantanu gets 390,
\* and the settlements returned are Om to Shantanu 390, then Om to Sanket 20.
ScenarioA ==
    expenses = Added(test_expenses, 1) =>
        /\ response.op = "balances" =>
              response.body =
                  << [person |-> "Om", balance |-> 41000, status |-> "owes"],
                     [person |-> "Sanket", balance |-> 2000, status |-> "gets"],
                     [person |-> "Shantanu", balance |-> 39000, status |-> "gets"] >>
        /\ response.op = "people" =>
              [i \in 1..Len(response.body) |-> response.body[i].balance]
                  = << 0 - 41000, 2000, 39000 >>
        /\ response.op = "settlements" =>
              response.body =
                  << [from_person |-> "Om", to_person |-> "Shantanu", amount |-> 39000],
                     [from_person |-> "Om", to_person |-> "Sanket", amount |-> 2000] >>

\* witness of C8: the settlements of the test expenses were returned
ScenarioAServed ==
    /\ expenses = Added(test_expenses, 1)
    /\ Returned("settlements")
    /\ Len(response.body) = 2

ReadOps == {"balances", "settlements", "people"}

\* C9: a read leaves the expenses and next_id as they are, and a read that
\* repeats the read before it returns what that one returned.
ReadsLeaveStore ==
    [][/\ response'.op \in ReadOps => store' = store
       /\ repeated' => response' = response]_vars

\* witness of C9: the settlements were returned twice in a row
SettlementsRepeated ==
    /\ repeated
    /\ Returned("settlements")
    /\ response.body # <<>>

\* C10: an update or a delete of an id that no expense of the store has ends
\* with 404 and leaves the expenses and next_id as they are.
MissingIdNotFound ==
    [][(/\ response'.op \in {"update", "delete"}
        /\ response'.status # 422
        /\ response'.id \notin Ids(expenses))
       => (response'.status = 404 /\ store' = store)]_vars

\* witness of C10: the delete of an id that was deleted before ended with 404
DeletedTwice ==
    /\ response.op = "delete"
    /\ response.status = 404
    /\ response.id \in assigned

====
